---- MODULE Spec2Model ----
(***************************************************************************)
(* A model of the signal-processing core of FFT_demo:                      *)
(*   FFTProcessor      (src/js/processing/fft.js, lines 5-222)             *)
(*   SpectralAnalyzer  (src/unnamed/part_003, lines 240-519)               *)
(*   DataLoader.validateData (src/js/utils/dataLoader.js, lines 163-178)   *)
(*   the file form of the page (src/js/main.js, lines 94-129 and 181-213,  *)
(*   with DataLoader.loadFile, src/js/utils/dataLoader.js, lines 92-138)   *)
(*                                                                         *)
(* The program is a library of synchronous calls.  A state of the model is *)
(* the analyzer instance (fftSize, overlap) together with the last call    *)
(* made (op, args), what it returned or threw (ret) and the lengths of the *)
(* buffers that reached FFTProcessor.fft during that call (fftLens).       *)
(* signalAfter is the content of the caller's signal buffer when the call  *)
(* returns and signalRefs names the values of the call that are the        *)
(* caller's signal object itself ("result": the value returned).  The loop *)
(* of _segmentSignal is also modelled step by step: pc is the branch it is *)
(* in, loopI its loop variable i and loopSegments the frames pushed so far.  *)
(* The page is dataFileInput (the file chosen), fileLoads (the submissions  *)
(* of the file form in order, each with the state of its read),            *)
(* lastFFTResult and timeTitle (the title of the plots shown).             *)
(*                                                                         *)
(* Numbers.  A JavaScript number is modelled in fixed point, in hundredths *)
(* (Num(150) is 1.5), next to the values NaN, -Infinity and undefined that *)
(* the code can produce.  Products and quotients are rounded to the        *)
(* nearest hundredth where IEEE doubles round to the nearest double, and   *)
(* cos/sin/atan2/log10 are tabulated or interpolated to that resolution    *)
(* (so cos(-pi/2), 6.1e-17 as a double, is 0 here).  Signed zeros are not  *)
(* distinguished.  Array lengths and indices are plain integers.           *)
(***************************************************************************)
EXTENDS Integers, Sequences, FiniteSets, TLC

VARIABLES op, args, ret, fftLens, fftSize, overlap,
          signalAfter, signalRefs, pc, loopI, loopSegments,
          dataFileInput, fileLoads, lastFFTResult, timeTitle

\* the state of the page (src/js/main.js)
uiVars == <<dataFileInput, fileLoads, lastFFTResult, timeTitle>>

vars == <<op, args, ret, fftLens, fftSize, overlap, signalAfter, signalRefs, pc, loopI, loopSegments,
          uiVars>>

(***************************************************************************)
(* Bounds of the model.                                                    *)
(***************************************************************************)
MaxN == 40          \* largest argument given to nextPowerOf2 directly
MaxLen == 4         \* longest signal given to computeFFT
MaxLog == 2         \* fft is called directly on buffers of length 2^0..2^MaxLog
MaxBins == 7        \* longest magnitude array given to detectPeaks directly
MaxSig == 5         \* longest signal given to computeSpectrogram
MaxCorr == 3        \* longest signal given to computeCrossCorrelation
MaxWin == 5         \* longest segment given to applyWindow and _applyWindow directly
MaxData == 4        \* longest array given to validateData
MaxSeg == 6         \* longest signal given to _segmentSignal directly
MaxFrame == 4       \* largest fftSize of an analyzer whose _segmentSignal is stepped
MaxFrames == 12     \* frames one _segmentSignal call may push before the model stops it
MaxLonger == 120    \* signals up to this much longer than the frame are counted in frames
MaxLoads == 2       \* submissions of the file form in one session of the page

(***************************************************************************)
(* JavaScript values.                                                      *)
(***************************************************************************)
Num(i) == [k |-> "num", v |-> i]
NaN == [k |-> "NaN", v |-> 0]
NegInfinity == [k |-> "-Infinity", v |-> 0]
undefined == [k |-> "undefined", v |-> 0]
null == [k |-> "null", v |-> 0]
Arr(s) == [k |-> "Array", e |-> s]
F32(s) == [k |-> "Float32Array", e |-> s]
Throw(name) == [k |-> "throw", name |-> name]

IsNum(x) == x.k = "num"
IsArray(x) == x.k \in {"Array", "Float32Array"}
IsThrow(x) == x.k = "throw"
Length(x) == Len(x.e)

\* x[i], i counted from 0: undefined past the end and on a number
Get(x, i) == IF IsArray(x) /\ i >= 0 /\ i < Len(x.e) THEN x.e[i + 1] ELSE undefined

\* ToNumber as the code meets it: of a number, of undefined, and of the
\* two-element array [x, 0] (whose string "x,0" is not a number)
ToNumber(x) == IF x.k \in {"num", "-Infinity"} THEN x ELSE NaN

RoundDiv(a, b) ==
    IF a >= 0 THEN (2 * a + b) \div (2 * b) ELSE 0 - ((2 * (0 - a) + b) \div (2 * b))

Add(a, b) == IF IsNum(a) /\ IsNum(b) THEN Num(a.v + b.v) ELSE NaN
Sub(a, b) == IF IsNum(a) /\ IsNum(b) THEN Num(a.v - b.v) ELSE NaN
Mul(a, b) == IF IsNum(a) /\ IsNum(b) THEN Num(RoundDiv(a.v * b.v, 100)) ELSE NaN

\* x > y of two JavaScript values (false when either is NaN or undefined)
Gt(x, y) ==
    \/ IsNum(x) /\ IsNum(y) /\ x.v > y.v
    \/ IsNum(x) /\ y.k = "-Infinity"

RECURSIVE ISqrt(_)
ISqrt(x) ==
    IF x < 2 THEN x
    ELSE LET s == 2 * ISqrt(x \div 4)
         IN IF (s + 1) * (s + 1) <= x THEN s + 1 ELSE s

\* cos and sin of num/den of a turn (2*pi*num/den), in hundredths
CosTable ==
    << <<100>>,
       <<100, -100>>,
       <<100, -50, -50>>,
       <<100, 0, -100, 0>>,
       <<100, 31, -81, -81, 31>>,
       <<100, 50, -50, -100, -50, 50>>,
       <<100, 62, -22, -90, -90, -22, 62>>,
       <<100, 71, 0, -71, -100, -71, 0, 71>> >>

SinTable ==
    << <<0>>,
       <<0, 0>>,
       <<0, 87, -87>>,
       <<0, 100, 0, -100>>,
       <<0, 95, 59, -59, -95>>,
       <<0, 87, 87, 0, -87, -87>>,
       <<0, 78, 97, 43, -43, -97, -78>>,
       <<0, 71, 100, 71, 0, -71, -100, -71>> >>

CosTurn(num, den) == IF den = 0 THEN NaN ELSE Num(CosTable[den][(num % den) + 1])
SinTurn(num, den) == IF den = 0 THEN NaN ELSE Num(SinTable[den][(num % den) + 1])

(***************************************************************************)
(* FFTProcessor                                                            *)
(***************************************************************************)
RECURSIVE CeilLog2(_)
CeilLog2(n) == IF n <= 1 THEN 0 ELSE 1 + CeilLog2((n + 1) \div 2)

nextPowerOf2Floor(n) == IF n = 0 THEN 0 ELSE IF 2 ^ CeilLog2(n) = n THEN n ELSE 2 ^ (CeilLog2(n) - 1)

\* Math.pow(2, Math.ceil(Math.log2(n))); log2(0) is -Infinity and 2^-Infinity is 0
nextPowerOf2(n) == IF n = 0 THEN 0 ELSE 2 ^ CeilLog2(n)

padSignalNoPad(signal, targetLength) == signal

padSignal(signal, targetLength) ==
    IF Length(signal) >= targetLength THEN signal
    ELSE Arr([i \in 1..targetLength |->
                 IF i <= Length(signal) THEN signal.e[i] ELSE Num(0)])

\* paddedSignal.map(x => [x, 0]): Array.prototype.map keeps the pairs, while
\* %TypedArray%.prototype.map builds a typed array and stores ToNumber([x, 0])
MapToComplex(padded) ==
    IF padded.k = "Float32Array"
    THEN F32([i \in 1..Length(padded) |-> ToNumber(Arr(<<padded.e[i], Num(0)>>))])
    ELSE Arr([i \in 1..Length(padded) |-> Arr(<<padded.e[i], Num(0)>>)])

TwiddledNextAngle(oddFFT, n, k) ==
    LET c == CosTurn(k + 1, n)
        s == Sub(Num(0), SinTurn(k + 1, n))
        o == Get(oddFFT, k)
    IN <<Sub(Mul(c, ToNumber(Get(o, 0))), Mul(s, ToNumber(Get(o, 1)))),
         Add(Mul(c, ToNumber(Get(o, 1))), Mul(s, ToNumber(Get(o, 0))))>>

\* t = twiddle * oddFFT[k] in the combine loop, as the pair <<t[0], t[1]>>
Twiddled(oddFFT, n, k) ==
    LET c == CosTurn(k, n)                  \* cos(-2*pi*k/n)
        s == Sub(Num(0), SinTurn(k, n))     \* sin(-2*pi*k/n)
        o == Get(oddFFT, k)
    IN <<Sub(Mul(c, ToNumber(Get(o, 0))), Mul(s, ToNumber(Get(o, 1)))),
         Add(Mul(c, ToNumber(Get(o, 1))), Mul(s, ToNumber(Get(o, 0))))>>

ButterflyNoUpperHalf(evenFFT, oddFFT, n, j) ==
    LET t == Twiddled(oddFFT, n, j % (n \div 2))
        ev == Get(evenFFT, j % (n \div 2))
    IN IF j < n \div 2
       THEN Arr(<<Add(ToNumber(Get(ev, 0)), t[1]), Add(ToNumber(Get(ev, 1)), t[2])>>)
       ELSE undefined

\* result[j] after the combine loop, j counted from 0: result[k] = even + t and
\* result[k + n/2] = even - t
Butterfly(evenFFT, oddFFT, n, j) ==
    LET t == Twiddled(oddFFT, n, j % (n \div 2))
        ev == Get(evenFFT, j % (n \div 2))
    IN IF j < n \div 2
       THEN Arr(<<Add(ToNumber(Get(ev, 0)), t[1]), Add(ToNumber(Get(ev, 1)), t[2])>>)
       ELSE Arr(<<Sub(ToNumber(Get(ev, 0)), t[1]), Sub(ToNumber(Get(ev, 1)), t[2])>>)

RECURSIVE fft(_)
fft(input) ==
    LET n == Length(input)
    IN IF n <= 1 THEN input
       ELSE IF n % 2 # 0 THEN Throw("RangeError")     \* Array(n/2), n/2 fractional
       ELSE LET h == n \div 2
                evenFFT == fft(Arr([i \in 1..h |-> Get(input, 2 * (i - 1))]))
                oddFFT == fft(Arr([i \in 1..h |-> Get(input, 2 * (i - 1) + 1)]))
            IN IF IsThrow(evenFFT) THEN evenFFT
               ELSE IF IsThrow(oddFFT) THEN oddFFT
               ELSE Arr([i \in 1..n |-> Butterfly(evenFFT, oddFFT, n, i - 1)])

\* the lengths of the buffers of fft(input) and of every recursive call under it
RECURSIVE FftCalls(_)
FftCalls(n) ==
    IF n <= 1 \/ n % 2 # 0 THEN {n} ELSE {n} \cup FftCalls(n \div 2)

\* Math.sqrt(real*real + imag*imag) / n
Magnitude(re, im, n) ==
    IF IsNum(re) /\ IsNum(im) THEN Num(RoundDiv(ISqrt(re.v * re.v + im.v * im.v), n)) ELSE NaN

\* atan(y/x) in hundredths of a degree for 0 <= y <= x, x > 0
AtanOctant(y, x) ==
    LET z == RoundDiv(1000 * y, x)
    IN RoundDiv(z * (4500 + RoundDiv(1566 * (1000 - z), 1000)), 1000)

AtanQuadrant(y, x) ==
    IF x = 0 /\ y = 0 THEN 0
    ELSE IF y <= x THEN AtanOctant(y, x) ELSE 9000 - AtanOctant(x, y)

\* Math.atan2(imag, real) * 180 / Math.PI
PhaseDeg(im, re) ==
    IF ~(IsNum(re) /\ IsNum(im)) THEN NaN
    ELSE LET x == re.v
             y == im.v
             ax == IF x < 0 THEN 0 - x ELSE x
             ay == IF y < 0 THEN 0 - y ELSE y
             a == AtanQuadrant(ay, ax)
         IN Num(IF x >= 0 /\ y >= 0 THEN a
                ELSE IF x < 0 /\ y >= 0 THEN 18000 - a
                ELSE IF x < 0 THEN a - 18000
                ELSE 0 - a)

\* new Array(n/2) with its loop bound i < n/2: a fractional n/2 is a RangeError
HalfLength(n) == n \div 2

calculateMagnitudesAndPhases(fftResult) ==
    LET n == Length(fftResult)
    IN IF n % 2 # 0 THEN Throw("RangeError")
       ELSE [k |-> "object",
             magnitudes |-> Arr([i \in 1..HalfLength(n) |->
                 Magnitude(ToNumber(Get(Get(fftResult, i - 1), 0)),
                           ToNumber(Get(Get(fftResult, i - 1), 1)), n)]),
             phases |-> Arr([i \in 1..HalfLength(n) |->
                 PhaseDeg(ToNumber(Get(Get(fftResult, i - 1), 1)),
                          ToNumber(Get(Get(fftResult, i - 1), 0)))])]

DfOfHalfLength(n, sampleRate) ==
    IF IsNum(sampleRate) /\ n > 1 THEN Num(RoundDiv(sampleRate.v, n \div 2)) ELSE NaN

\* sampleRate / n
Df(n, sampleRate) == IF IsNum(sampleRate) /\ n > 0 THEN Num(RoundDiv(sampleRate.v, n)) ELSE NaN

calculateFrequencies(n, sampleRate) ==
    IF n % 2 # 0 THEN Throw("RangeError")
    ELSE Arr([i \in 1..HalfLength(n) |->
                 IF IsNum(Df(n, sampleRate)) THEN Num((i - 1) * Df(n, sampleRate).v) ELSE NaN])

\* Math.max(...magnitudes): -Infinity of no argument, NaN when any is not a number
RECURSIVE MaxFrom(_, _, _)
MaxFrom(seq, i, best) ==
    IF i > Len(seq) THEN best
    ELSE MaxFrom(seq, i + 1,
                 IF best.k = "NaN" \/ ~IsNum(ToNumber(seq[i])) THEN NaN
                 ELSE IF Gt(seq[i], best) THEN seq[i] ELSE best)

MathMax(magnitudes) == MaxFrom(magnitudes.e, 1, NegInfinity)

\* magnitudes[i] > maxMagnitude * (threshold / 100): the product is kept exact
\* (hundredths times hundredths), a double holding it to sixteen digits
AboveThreshold(m, maxMagnitude, threshold) ==
    /\ IsNum(m)
    /\ \/ IsNum(maxMagnitude) /\ IsNum(threshold) /\ m.v * 10000 > maxMagnitude.v * threshold.v
       \/ maxMagnitude.k = "-Infinity" /\ IsNum(threshold) /\ threshold.v > 0

IsPeakWithPlateau(magnitudes, threshold, i) ==
    /\ AboveThreshold(Get(magnitudes, i), MathMax(magnitudes), threshold)
    /\ ~Gt(Get(magnitudes, i - 1), Get(magnitudes, i))
    /\ ~Gt(Get(magnitudes, i + 1), Get(magnitudes, i))

\* the condition of the loop body at bin i (counted from 0)
IsPeak(magnitudes, threshold, i) ==
    /\ AboveThreshold(Get(magnitudes, i), MathMax(magnitudes), threshold)
    /\ Gt(Get(magnitudes, i), Get(magnitudes, i - 1))
    /\ Gt(Get(magnitudes, i), Get(magnitudes, i + 1))

PeakBinsWithEdges(magnitudes, threshold) ==
    {i \in 0..(Length(magnitudes) - 1) :
        /\ AboveThreshold(Get(magnitudes, i), MathMax(magnitudes), threshold)
        /\ (i = 0 \/ Gt(Get(magnitudes, i), Get(magnitudes, i - 1)))
        /\ (i = Length(magnitudes) - 1 \/ Gt(Get(magnitudes, i), Get(magnitudes, i + 1)))}

\* the bins the loop pushes: for (let i = 1; i < magnitudes.length - 1; i++) if (...)
PeakBins(magnitudes, threshold) ==
    {i \in 1..(Length(magnitudes) - 2) : IsPeak(magnitudes, threshold, i)}

Peak(frequencies, magnitudes, phases, i) ==
    [frequency |-> Get(frequencies, i), magnitude |-> Get(magnitudes, i),
     phase |-> Get(phases, i)]

\* the peaks pushed by the loop, in bin order
RECURSIVE PushPeaks(_, _, _, _, _)
PushPeaks(frequencies, magnitudes, phases, threshold, i) ==
    IF i > Length(magnitudes) - 1 THEN <<>>
    ELSE (IF i \in PeakBins(magnitudes, threshold)
          THEN <<Peak(frequencies, magnitudes, phases, i)>> ELSE <<>>)
         \o PushPeaks(frequencies, magnitudes, phases, threshold, i + 1)

ComesBeforeAscending(b, a) == Gt(Sub(a.magnitude, b.magnitude), Num(0))

\* the comparator (a, b) => b.magnitude - a.magnitude is positive: b sorts before a
ComesBefore(b, a) == Gt(Sub(b.magnitude, a.magnitude), Num(0))

\* Array.prototype.sort is stable (ECMAScript 2019): p goes after every element
\* that does not have to come after it
RECURSIVE InsertSorted(_, _)
InsertSorted(sorted, p) ==
    IF sorted = <<>> THEN <<p>>
    ELSE IF ComesBefore(p, Head(sorted)) THEN <<p>> \o sorted
    ELSE <<Head(sorted)>> \o InsertSorted(Tail(sorted), p)

RECURSIVE SortPeaks(_)
SortPeaks(peaks) ==
    IF peaks = <<>> THEN <<>>
    ELSE InsertSorted(SortPeaks(SubSeq(peaks, 1, Len(peaks) - 1)), peaks[Len(peaks)])

detectPeaks(frequencies, magnitudes, phases, threshold) ==
    Arr(SortPeaks(PushPeaks(frequencies, magnitudes, phases, threshold, 0)))

WindowKinds == {"none", "rectangular", "hamming", "hanning", "blackman", "kaiser"}

WindowValueRectangularTapered(windowType, i, n) ==
    IF n = 1 THEN NaN
    ELSE Num(RoundDiv(50 * (100 - CosTurn(i, n - 1).v), 100))

WindowValueHanningAsHamming(windowType, i, n) ==
    IF windowType = "rectangular" THEN Num(100)
    ELSE IF n = 1 THEN NaN
    ELSE IF windowType \in {"hamming", "hanning"}
         THEN Num(54 - RoundDiv(46 * CosTurn(i, n - 1).v, 100))
    ELSE IF windowType = "blackman"
         THEN Num(42 - RoundDiv(50 * CosTurn(i, n - 1).v, 100)
                     + RoundDiv(8 * CosTurn(2 * i, n - 1).v, 100))
    ELSE Num(ISqrt(10000 - (RoundDiv(200 * i, n - 1) - 100) * (RoundDiv(200 * i, n - 1) - 100)))

\* windowValue at index i of n, in hundredths; i/(n-1) is 0/0 = NaN when n = 1
WindowValue(windowType, i, n) ==
    LET c1 == CosTurn(i, n - 1)             \* cos(2*pi*i/(n-1))
        c2 == CosTurn(2 * i, n - 1)         \* cos(4*pi*i/(n-1))
    IN IF windowType = "rectangular" THEN Num(100)
       ELSE IF n = 1 THEN NaN
       ELSE IF windowType = "hamming" THEN Num(54 - RoundDiv(46 * c1.v, 100))
       ELSE IF windowType = "hanning" THEN Num(RoundDiv(50 * (100 - c1.v), 100))
       ELSE IF windowType = "blackman"
            THEN Num(42 - RoundDiv(50 * c1.v, 100) + RoundDiv(8 * c2.v, 100))
       ELSE LET r == RoundDiv(200 * i, n - 1) - 100      \* kaiser: 2*i/(n-1) - 1
            IN Num(ISqrt(10000 - r * r))

applyWindow(signal, windowType) ==
    LET n == Length(signal)
    IN IF windowType = "none" THEN signal
       ELSE IF n = 0 THEN Arr(<<>>)
       ELSE IF windowType \notin WindowKinds THEN signal
       ELSE Arr([i \in 1..n |->
                    Mul(ToNumber(signal.e[i]), WindowValue(windowType, i - 1, n))])

\* applyWindow hands back its own argument: return signal, for 'none' before the
\* loop and in the default branch of the switch, which only a running loop reaches
applyWindowReturnsInput(signal, windowType) ==
    windowType = "none" \/ (Length(signal) > 0 /\ windowType \notin WindowKinds)

\* padSignal hands back its own argument: if (signal.length >= targetLength) return signal
padSignalReturnsInput(signal, targetLength) == Length(signal) >= targetLength

\* the buffer computeFFT hands to fft
ComplexSignal(signal, windowType) ==
    MapToComplex(padSignal(applyWindow(signal, windowType), nextPowerOf2(Length(signal))))

computeFFT(signal, windowType, sampleRate, peakThreshold) ==
    LET paddedLength == nextPowerOf2(Length(signal))
        fftResult == fft(ComplexSignal(signal, windowType))
        frequencies == calculateFrequencies(paddedLength, sampleRate)
        mp == calculateMagnitudesAndPhases(fftResult)
    IN IF IsThrow(fftResult) THEN fftResult
       ELSE IF IsThrow(frequencies) THEN frequencies
       ELSE IF IsThrow(mp) THEN mp
       ELSE [k |-> "object",
             frequencies |-> frequencies,
             magnitudes |-> mp.magnitudes,
             phases |-> mp.phases,
             peaks |-> detectPeaks(frequencies, mp.magnitudes, mp.phases, peakThreshold)]

\* the values of one computeFFT call that are the caller's signal object: the
\* locals windowedSignal and paddedSignal can be; complexSignal is the new array of
\* map, and frequencies, magnitudes, phases and peaks are allocated by the helpers
computeFFTRefs(signal, windowType) ==
    (IF applyWindowReturnsInput(signal, windowType) THEN {"windowedSignal"} ELSE {})
    \cup (IF /\ applyWindowReturnsInput(signal, windowType)
              /\ padSignalReturnsInput(signal, nextPowerOf2(Length(signal)))
           THEN {"paddedSignal"} ELSE {})

(***************************************************************************)
(* SpectralAnalyzer                                                        *)
(***************************************************************************)
HopSizeNoFloor(segmentSize, overlapPct) == (segmentSize * (100 - overlapPct)) \div 100

\* Math.max(1, Math.floor(segmentSize * (1 - this.overlap))), overlap in percent
HopSize(segmentSize, overlapPct) ==
    LET h == (segmentSize * (100 - overlapPct)) \div 100
    IN IF h > 1 THEN h ELSE 1

Max2(a, b) == IF a > b THEN a ELSE b
Min2(a, b) == IF a < b THEN a ELSE b

\* new Float32Array(size) with data copied in at offset 0 (segment.set(data))
SegmentOf(data, size) ==
    F32([i \in 1..size |-> IF i <= Len(data) THEN ToNumber(data[i]) ELSE Num(0)])

\* signal.slice(start, end) of the elements, start and end counted from 0
Slice(signal, start, end) ==
    IF start >= end THEN <<>> ELSE SubSeq(signal.e, start + 1, end)

\* signal.slice(start): a negative start counts from the end
SliceFrom(signal, start) ==
    Slice(signal, IF start < 0 THEN Max2(0, Length(signal) + start) ELSE start, Length(signal))

IsShortSignalStrict(len, segmentSize) == len < segmentSize

\* if (signal.length <= segmentSize): the branch "for very short signals"
IsShortSignal(len, segmentSize) == len <= segmentSize

NumSegmentsAtLeast20(len, hopSize) == Max2(20, len \div hopSize)

\* Math.max(10, Math.floor(signal.length / hopSize))
NumSegments(len, hopSize) == Max2(10, len \div hopSize)

\* Math.min(Math.max(0, i * hopSize), signal.length - 1), i counted from 0
ShortStart(k, len, hopSize) == Min2(Max2(0, k * hopSize), len - 1)

\* the frame one iteration of the short-signal loop pushes
ShortSegment(signal, k, segmentSize, hopSize) ==
    SegmentOf(SliceFrom(signal, ShortStart(k, Length(signal), hopSize)), segmentSize)

SlidingSegmentUnpadded(signal, start, segmentSize) ==
    F32(Slice(signal, start, Min2(start + segmentSize, Length(signal))))

\* the frame one iteration of the sliding loop pushes, start counted from 0
SlidingSegment(signal, start, segmentSize) ==
    SegmentOf(Slice(signal, start, Min2(start + segmentSize, Length(signal))), segmentSize)

\* segments.length when _segmentSignal returns, for a signal of len samples: the
\* sliding loop runs once for each i = 0, hopSize, 2 * hopSize, ... below
\* signal.length - hopSize
SegmentCount(len, segmentSize, overlapPct) ==
    LET hopSize == HopSize(segmentSize, overlapPct)
    IN IF IsShortSignal(len, segmentSize) THEN NumSegments(len, hopSize)
       ELSE Cardinality({i \in 0..len : i % hopSize = 0 /\ i < len - hopSize})

_segmentSignal(signal, segmentSize, overlapPct) ==
    LET hopSize == HopSize(segmentSize, overlapPct)
        len == Length(signal)
    IN IF IsShortSignal(len, segmentSize)
       THEN [j \in 1..NumSegments(len, hopSize) |->
                ShortSegment(signal, j - 1, segmentSize, hopSize)]
       ELSE LET count == (len - hopSize + hopSize - 1) \div hopSize
            IN [j \in 1..count |-> SlidingSegment(signal, (j - 1) * hopSize, segmentSize)]

_applyWindow(segment, windowType) ==
    F32([i \in 1..Length(segment) |->
            Mul(ToNumber(segment.e[i]),
                IF windowType = "hanning"
                THEN WindowValue("hanning", i - 1, Length(segment)) ELSE Num(100))])

\* 20 * Math.log10(m) in hundredths of a dB, m > 0 in hundredths
RECURSIVE Decade(_)
Decade(m) == IF m < 10 THEN 1 ELSE 10 * Decade(m \div 10)

RECURSIVE DecadeIndex(_)
DecadeIndex(m) == IF m < 10 THEN 0 ELSE 1 + DecadeIndex(m \div 10)

Log10Db(m) ==
    2000 * (DecadeIndex(m) - 2) + RoundDiv(2000 * (m - Decade(m)), 9 * Decade(m))

\* magnitude <= 1e-10 ? -100 : 20 * Math.log10(magnitude)
ToDb(magnitude) ==
    IF ~IsNum(magnitude) THEN NaN
    ELSE IF magnitude.v <= 0 THEN Num(0 - 10000)
    ELSE Num(Log10Db(magnitude.v))

\* new Float32Array(signal) for a plain array; a Float32Array is kept
AsFloat32(signal) ==
    IF signal.k = "Float32Array" THEN signal
    ELSE F32([i \in 1..Length(signal) |-> ToNumber(signal.e[i])])

\* the signal computeSpectrogram segments: zero-padded to fftSize when shorter
PaddedForSpectrogram(signal, size) ==
    IF Length(signal) < size
    THEN F32([i \in 1..size |-> IF i <= Length(signal) THEN signal.e[i] ELSE Num(0)])
    ELSE signal

SpectrogramRowSkippingSilence(segment, size) ==
    LET result == computeFFT(_applyWindow(segment, "hanning"), "none", Num(100 * size), Num(0))
    IN IF IsThrow(result) \/ \A j \in 1..Length(segment) : segment.e[j] = Num(0) THEN null
       ELSE Arr([i \in 1..Min2(size \div 2, Length(result.magnitudes)) |->
                    ToDb(result.magnitudes.e[i])])

\* one iteration of the loop over the segments: the row pushed, or null when the
\* iteration ends in continue
SpectrogramRow(segment, size) ==
    LET result == computeFFT(_applyWindow(segment, "hanning"), "none", Num(100 * size), Num(0))
    IN IF IsThrow(result) THEN null
       ELSE Arr([i \in 1..Min2(size \div 2, Length(result.magnitudes)) |->
                    ToDb(result.magnitudes.e[i])])

RECURSIVE DropNull(_)
DropNull(rows) ==
    IF rows = <<>> THEN <<>>
    ELSE (IF Head(rows).k = "null" THEN <<>> ELSE <<Head(rows)>>) \o DropNull(Tail(rows))

\* the segments of one computeSpectrogram call
SpectrogramSegments(signal, size, overlapPct) ==
    _segmentSignal(PaddedForSpectrogram(AsFloat32(signal), size), size, overlapPct)

computeSpectrogram(signal, sampleRate, size, overlapPct) ==
    IF signal.k = "null" \/ ~IsNum(sampleRate) \/ sampleRate.v = 0 THEN null
    ELSE LET segments == SpectrogramSegments(signal, size, overlapPct)
             spectrogramData == DropNull([i \in 1..Len(segments) |->
                                             SpectrogramRow(segments[i], size)])
         IN IF Len(segments) = 0 \/ Len(spectrogramData) = 0 THEN null
            ELSE [k |-> "object",
                  data |-> spectrogramData,
                  frequencies |-> F32([i \in 1..(size \div 2) |->
                                          Num(RoundDiv((i - 1) * sampleRate.v, size))]),
                  timeSteps |-> Len(spectrogramData),
                  timeResolution |-> Num(RoundDiv(size * (100 - overlapPct) * 100,
                                                  sampleRate.v))]

RECURSIVE CorrSumStrictLowerBound(_, _, _, _, _)
CorrSumStrictLowerBound(signal1, signal2, n, lag, i) ==
    IF i >= n THEN Num(0)
    ELSE LET rest == CorrSumStrictLowerBound(signal1, signal2, n, lag, i + 1)
         IN IF i - lag > 0 /\ i - lag < n
            THEN Add(Mul(ToNumber(Get(signal1, i)), ToNumber(Get(signal2, i - lag))), rest)
            ELSE rest

RECURSIVE CorrSumReversedLag(_, _, _, _, _)
CorrSumReversedLag(signal1, signal2, n, lag, i) ==
    IF i >= n THEN Num(0)
    ELSE LET rest == CorrSumReversedLag(signal1, signal2, n, lag, i + 1)
         IN IF i + lag >= 0 /\ i + lag < n
            THEN Add(Mul(ToNumber(Get(signal1, i)), ToNumber(Get(signal2, i + lag))), rest)
            ELSE rest

\* sum over i of signal1[i] * signal2[i - lag] for 0 <= i - lag < n
RECURSIVE CorrSum(_, _, _, _, _)
CorrSum(signal1, signal2, n, lag, i) ==
    IF i >= n THEN Num(0)
    ELSE LET rest == CorrSum(signal1, signal2, n, lag, i + 1)
         IN IF i - lag >= 0 /\ i - lag < n
            THEN Add(Mul(ToNumber(Get(signal1, i)), ToNumber(Get(signal2, i - lag))), rest)
            ELSE rest

computeCrossCorrelation(signal1, signal2) ==
    LET n == Length(signal1)
    IN IF 2 * n - 1 < 0 THEN Throw("RangeError")       \* new Float32Array(-1)
       ELSE F32([j \in 1..(2 * n - 1) |-> CorrSum(signal1, signal2, n, j - n, 0)])

\* Math.cos of an angle of d hundredths of a degree, -18000 <= d <= 18000, in
\* hundredths (Bhaskara's rational approximation on tenths of a degree)
CosDeg(d) ==
    LET a == IF d < 0 THEN 0 - d ELSE d
        x == (IF a > 9000 THEN 18000 - a ELSE a) \div 10
        c == RoundDiv(100 * (3240000 - 4 * x * x), 3240000 + x * x)
    IN IF a > 9000 THEN 0 - c ELSE c

\* Math.sin(phase) = cos(phase - 90 degrees)
SinDeg(d) == CosDeg(IF d - 9000 < 0 - 18000 THEN d + 27000 ELSE d - 9000)

\* { real: mag * Math.cos(phase), imag: mag * Math.sin(phase) }, phase in degrees
Complex(mag, phase) ==
    [k |-> "object",
     real |-> IF IsNum(phase) THEN Mul(mag, Num(CosDeg(phase.v))) ELSE NaN,
     imag |-> IF IsNum(phase) THEN Mul(mag, Num(SinDeg(phase.v))) ELSE NaN]

\* what _computeFFT makes of the result of computeFFT: null when it threw, else
\* one {real, imag} object per magnitude
ComplexResult(result) ==
    IF IsThrow(result) THEN null
    ELSE Arr([j \in 1..Length(result.magnitudes) |->
                 Complex(result.magnitudes.e[j], result.phases.e[j])])

\* null for no signal and for an empty one
_computeFFT(signal, size) ==
    IF ~IsArray(signal) \/ Length(signal) = 0 THEN null
    ELSE ComplexResult(computeFFT(AsFloat32(signal), "none", Num(100 * size), Num(0)))

\* Math.abs(x): NaN for an object and for undefined
MathAbs(x) == IF IsNum(x) THEN Num(IF x.v < 0 THEN 0 - x.v ELSE x.v) ELSE NaN

\* x / n for a count n; 0 / 0 is NaN
DivByCount(x, n) == IF IsNum(x) /\ n > 0 THEN Num(RoundDiv(x.v, n)) ELSE NaN

\* ffts.reduce((sum, fft) => sum + Math.pow(Math.abs(fft[i]), 2), 0), from the
\* j-th transform on
RECURSIVE PeriodogramSum(_, _, _, _)
PeriodogramSum(ffts, bin, j, sum) ==
    IF j > Len(ffts) THEN sum
    ELSE PeriodogramSum(ffts, bin, j + 1,
                        Add(sum, Mul(MathAbs(Get(ffts[j], bin)), MathAbs(Get(ffts[j], bin)))))

\* (i * sampleRate) / this.fftSize for i = 0..count-1, as a Float32Array
AnalyzerFrequencies(count, sampleRate, size) ==
    F32([j \in 1..count |->
            IF IsNum(sampleRate) THEN Num(RoundDiv((j - 1) * sampleRate.v, size)) ELSE NaN])

\* windowedSegments.map(seg => this._computeFFT(seg)) of the windowed segments
FrameTransforms(segs, size) ==
    [j \in 1..Len(segs) |-> _computeFFT(_applyWindow(segs[j], "hanning"), size)]

\* the average of the periodograms; fft[i] of a null transform is a TypeError
AveragePeriodogram(ffts, sampleRate, size) ==
    IF size \div 2 > 0 /\ \E j \in 1..Len(ffts) : ffts[j].k = "null"
    THEN Throw("TypeError")
    ELSE [k |-> "object",
          frequencies |-> AnalyzerFrequencies(size \div 2, sampleRate, size),
          psd |-> F32([b \in 1..(size \div 2) |->
                          DivByCount(PeriodogramSum(ffts, b - 1, 1, Num(0)), Len(ffts))])]

computePSD(signal, sampleRate, size, overlapPct) ==
    IF ~IsArray(signal) THEN Throw("TypeError")         \* _applyWindow(null)
    ELSE AveragePeriodogram(FrameTransforms(_segmentSignal(signal, size, overlapPct), size),
                            sampleRate, size)

\* Math.atan2(c.imag, c.real), in hundredths of a radian
Atan2(imag, real) ==
    IF IsNum(PhaseDeg(imag, real)) THEN Num(RoundDiv(PhaseDeg(imag, real).v * 314, 18000))
    ELSE NaN

\* -(phase[i + 1] - phase[i]) / ((2 * Math.PI * sampleRate) / this.fftSize); the
\* divisor is not 0 for the sample rates drawn (computeGroupDelay returns null
\* for sampleRate 0 before it gets here)
GroupDelayAt(phase0, phase1, sampleRate, size) ==
    LET num == Sub(phase0, phase1)
        den == RoundDiv(628 * sampleRate.v, 100 * size)
    IN IF IsNum(num) /\ den # 0 THEN Num(RoundDiv(100 * num.v, den)) ELSE NaN

\* fft.map(c => Math.atan2(c.imag, c.real))
PhaseOf(transform) ==
    [j \in 1..Length(transform) |-> Atan2(transform.e[j].imag, transform.e[j].real)]

\* the frequencies and group delays of a phase array
GroupDelayOfPhase(phase, sampleRate, size) ==
    [k |-> "object",
     frequencies |-> AnalyzerFrequencies(Len(phase) - 1, sampleRate, size),
     groupDelay |-> F32([j \in 1..(Len(phase) - 1) |->
                           GroupDelayAt(phase[j], phase[j + 1], sampleRate, size)])]

\* computeGroupDelay from the transform on: null when _computeFFT gave null or
\* no element has real and imag
GroupDelayOf(transform, sampleRate, size) ==
    IF transform.k = "null" \/ Length(transform) = 0 THEN null
    ELSE GroupDelayOfPhase(PhaseOf(transform), sampleRate, size)

computeGroupDelay(signal, sampleRate, size) ==
    IF signal.k = "null" \/ ~IsNum(sampleRate) \/ sampleRate.v = 0 THEN null
    ELSE GroupDelayOf(_computeFFT(signal, size), sampleRate, size)

(***************************************************************************)
(* DataLoader (src/js/utils/dataLoader.js)                                 *)
(***************************************************************************)
\* maxLength = 1000000 when the argument is left out, scaled down to 3
DefaultMaxLength == 3

validateDataRejectingOversized(data, maxLength) ==
    LET max == IF maxLength.k = "undefined" THEN DefaultMaxLength ELSE maxLength.v
    IN IF data.k # "Array" \/ Length(data) = 0 \/ Length(data) > max THEN Throw("Error")
       ELSE data

\* Array.isArray is false of a typed array.  maxLength is an array length >= 0.
validateData(data, maxLength) ==
    LET max == IF maxLength.k = "undefined" THEN DefaultMaxLength ELSE maxLength.v
    IN IF data.k # "Array" THEN Throw("Error")
       ELSE IF Length(data) = 0 THEN Throw("Error")
       ELSE IF Length(data) > max THEN Arr(Slice(data, 0, max))
       ELSE data

\* validateData hands back its own argument: return data
validateDataReturnsInput(data, maxLength) ==
    /\ data.k = "Array"
    /\ Length(data) > 0
    /\ Length(data) <= (IF maxLength.k = "undefined" THEN DefaultMaxLength ELSE maxLength.v)

(***************************************************************************)
(* The state machine: one action per exported operation.                   *)
(***************************************************************************)
\* this.fftSize = 512 and this.overlap = 0.9 in the constructor.  The model keeps
\* fftSize a power of two and scales it down to 4; the overlap is in percent.
ConstructorFftSize == 4
ConstructorOverlap == 90
\* the frame size of the constructor as it stands in the source, for what depends
\* on the ratio of the frame size to the hop and does not scale down
FullFftSize == 512

Samples == {Num(0 - 100), Num(0), Num(100)}
ArrayKinds == {"Array", "Float32Array"}
SampleRates == {Num(800)}
Thresholds == {Num(0), Num(1000), Num(5000), Num(10000)}
ComplexSamples == {Arr(<<Num(0), Num(0)>>), Arr(<<Num(100), Num(0)>>), Arr(<<Num(0), Num(100)>>)}
Magnitudes == {Num(0), Num(100), Num(200)}

SeqsOfLen(S, m) == [1..m -> S]

\* the page as loaded: no file chosen, no load submitted, let lastFFTResult = null
\* and no plot title
UiInit ==
    /\ dataFileInput = null
    /\ fileLoads = <<>>
    /\ lastFFTResult = null
    /\ timeTitle = ""

Init ==
    /\ op = "idle"
    /\ args = <<>>
    /\ ret = undefined
    /\ fftLens = {}
    /\ fftSize = ConstructorFftSize
    /\ overlap = ConstructorOverlap
    /\ signalAfter = undefined
    /\ signalRefs = {}
    /\ pc = "none"
    /\ loopI = 0
    /\ loopSegments = <<>>
    /\ UiInit

CallNextPowerOf2 ==
    /\ op = "idle"
    /\ \E n \in 0..MaxN :
        /\ op' = "nextPowerOf2"
        /\ args' = [n |-> n]
        /\ ret' = [k |-> "int", v |-> nextPowerOf2(n)]
        /\ fftLens' = {}
        /\ signalAfter' = undefined
        /\ signalRefs' = {}
        /\ UNCHANGED <<uiVars, fftSize, overlap, pc, loopI, loopSegments>>

CallFft ==
    /\ op = "idle"
    /\ \E j \in 0..MaxLog :
        \E e \in SeqsOfLen(ComplexSamples, 2 ^ j) :
            /\ op' = "fft"
            /\ args' = [input |-> Arr(e)]
            /\ ret' = fft(Arr(e))
            /\ fftLens' = FftCalls(Len(e))
            /\ signalAfter' = undefined
            /\ signalRefs' = {}
            /\ UNCHANGED <<uiVars, fftSize, overlap, pc, loopI, loopSegments>>

CallDetectPeaks ==
    /\ op = "idle"
    /\ \E m \in 0..MaxBins :
        \E e \in SeqsOfLen(Magnitudes, m), threshold \in Thresholds :
            LET frequencies == Arr([i \in 1..m |-> Num(100 * (i - 1))])
                phases == Arr([i \in 1..m |-> Num(0 - 1000 * (i - 1))])
            IN /\ op' = "detectPeaks"
               /\ args' = [frequencies |-> frequencies, magnitudes |-> Arr(e),
                           phases |-> phases, threshold |-> threshold]
               /\ ret' = detectPeaks(frequencies, Arr(e), phases, threshold)
               /\ fftLens' = {}
               /\ signalAfter' = undefined
               /\ signalRefs' = {}
               /\ UNCHANGED <<uiVars, fftSize, overlap, pc, loopI, loopSegments>>

CallComputeFFT ==
    /\ op = "idle"
    /\ \E m \in 0..MaxLen :
        \E e \in SeqsOfLen(Samples, m), kind \in ArrayKinds,
           windowType \in WindowKinds \cup {"triangular"},
           sampleRate \in SampleRates \cup {Num(0)},
           peakThreshold \in {Num(0), Num(1000)} :
            LET signal == [k |-> kind, e |-> e]
            IN /\ op' = "computeFFT"
               /\ args' = [signal |-> signal, windowType |-> windowType,
                           sampleRate |-> sampleRate, peakThreshold |-> peakThreshold]
               /\ ret' = computeFFT(signal, windowType, sampleRate, peakThreshold)
               /\ fftLens' = FftCalls(Length(ComplexSignal(signal, windowType)))
               /\ signalAfter' = signal
               /\ signalRefs' = computeFFTRefs(signal, windowType)
               /\ UNCHANGED <<uiVars, fftSize, overlap, pc, loopI, loopSegments>>

SpectrogramInputs ==
    {null} \cup UNION {{[k |-> kind, e |-> e] : kind \in ArrayKinds, e \in SeqsOfLen(Samples, m)} :
                       m \in 0..MaxSig}

CallComputeSpectrogram ==
    /\ op = "idle"
    /\ \E signal \in SpectrogramInputs, sampleRate \in SampleRates \cup {Num(0)} :
        /\ op' = "computeSpectrogram"
        /\ args' = [signal |-> signal, sampleRate |-> sampleRate]
        /\ ret' = computeSpectrogram(signal, sampleRate, fftSize, overlap)
        /\ fftLens' =
               IF signal.k = "null" \/ sampleRate.v = 0 THEN {}
               ELSE LET segments == SpectrogramSegments(signal, fftSize, overlap)
                    IN UNION {FftCalls(Length(ComplexSignal(
                                  _applyWindow(segments[i], "hanning"), "none"))) :
                              i \in 1..Len(segments)}
        /\ signalAfter' = signal
        /\ signalRefs' = {}
        /\ UNCHANGED <<uiVars, fftSize, overlap, pc, loopI, loopSegments>>

CallComputeCrossCorrelation ==
    /\ op = "idle"
    /\ \E m1 \in 0..MaxCorr, m2 \in 0..MaxCorr :
        \E e1 \in SeqsOfLen(Samples, m1), e2 \in SeqsOfLen(Samples, m2) :
            /\ op' = "computeCrossCorrelation"
            /\ args' = [signal1 |-> F32(e1), signal2 |-> F32(e2)]
            /\ ret' = computeCrossCorrelation(F32(e1), F32(e2))
            /\ fftLens' = {}
            /\ signalAfter' = undefined
            /\ signalRefs' = {}
            /\ UNCHANGED <<uiVars, fftSize, overlap, pc, loopI, loopSegments>>

\* a kind no case of the switch names; "absent" stands for the argument left out
\* (undefined), which takes the default branch like any other unnamed value
UnrecognisedKinds == {"triangular", "absent"}

CallApplyWindow ==
    /\ op = "idle"
    /\ \E m \in 0..MaxWin :
        \E e \in SeqsOfLen(Samples, m), kind \in ArrayKinds,
           windowType \in WindowKinds \cup UnrecognisedKinds :
            LET signal == [k |-> kind, e |-> e]
            IN /\ op' = "applyWindow"
               /\ args' = [signal |-> signal, windowType |-> windowType]
               /\ ret' = applyWindow(signal, windowType)
               /\ fftLens' = {}
               /\ signalAfter' = signal
               /\ signalRefs' = IF applyWindowReturnsInput(signal, windowType)
                                 THEN {"result"} ELSE {}
               /\ UNCHANGED <<uiVars, fftSize, overlap, pc, loopI, loopSegments>>

Call_applyWindow ==
    /\ op = "idle"
    /\ \E m \in 0..MaxWin :
        \E e \in SeqsOfLen(Samples, m), windowType \in {"hanning", "absent"} :
            /\ op' = "_applyWindow"
            /\ args' = [segment |-> F32(e), windowType |-> windowType]
            /\ ret' = _applyWindow(F32(e), windowType)
            /\ fftLens' = {}
            /\ signalAfter' = F32(e)
            /\ signalRefs' = {}
            /\ UNCHANGED <<uiVars, fftSize, overlap, pc, loopI, loopSegments>>

\* the buffer lengths fft sees while the frames of segs go through computeFFT
FrameFftLens(segs) ==
    UNION {FftCalls(Length(ComplexSignal(_applyWindow(segs[j], "hanning"), "none"))) :
           j \in 1..Len(segs)}

CallComputePSDStoringOverlap ==
    /\ op = "idle"
    /\ \E signal \in SpectrogramInputs, sampleRate \in SampleRates \cup {Num(0)} :
        /\ op' = "computePSD"
        /\ args' = [signal |-> signal, sampleRate |-> sampleRate]
        /\ ret' = computePSD(signal, sampleRate, fftSize, 50)
        /\ fftLens' = {}
        /\ signalAfter' = signal
        /\ signalRefs' = {}
        /\ overlap' = 50
        /\ UNCHANGED <<uiVars, fftSize, pc, loopI, loopSegments>>

CallComputePSD ==
    /\ op = "idle"
    /\ \E signal \in SpectrogramInputs, sampleRate \in SampleRates \cup {Num(0)} :
        /\ op' = "computePSD"
        /\ args' = [signal |-> signal, sampleRate |-> sampleRate]
        /\ ret' = computePSD(signal, sampleRate, fftSize, overlap)
        /\ fftLens' = IF signal.k = "null" THEN {}
                       ELSE FrameFftLens(_segmentSignal(signal, fftSize, overlap))
        /\ signalAfter' = signal
        /\ signalRefs' = {}
        /\ UNCHANGED <<uiVars, fftSize, overlap, pc, loopI, loopSegments>>

CallComputeGroupDelay ==
    /\ op = "idle"
    /\ \E signal \in SpectrogramInputs, sampleRate \in SampleRates \cup {Num(0)} :
        /\ op' = "computeGroupDelay"
        /\ args' = [signal |-> signal, sampleRate |-> sampleRate]
        /\ ret' = computeGroupDelay(signal, sampleRate, fftSize)
        /\ fftLens' = IF signal.k = "null" \/ sampleRate.v = 0 \/ Length(signal) = 0 THEN {}
                       ELSE FftCalls(Length(ComplexSignal(AsFloat32(signal), "none")))
        /\ signalAfter' = signal
        /\ signalRefs' = {}
        /\ UNCHANGED <<uiVars, fftSize, overlap, pc, loopI, loopSegments>>

\* what validateData is given: not an array at all, a typed array, a plain array
DataInputs ==
    {null, undefined, Num(100)}
    \cup UNION {{[k |-> kind, e |-> e] : kind \in ArrayKinds, e \in SeqsOfLen(Samples, m)} :
                m \in 0..MaxData}

\* the second argument: left out, or a length
MaxLengths == {undefined} \cup {[k |-> "int", v |-> n] : n \in 0..MaxData}

CallValidateData ==
    /\ op = "idle"
    /\ \E data \in DataInputs, maxLength \in MaxLengths :
        /\ op' = "validateData"
        /\ args' = [data |-> data, maxLength |-> maxLength]
        /\ ret' = validateData(data, maxLength)
        /\ fftLens' = {}
        /\ signalAfter' = data
        /\ signalRefs' = IF validateDataReturnsInput(data, maxLength) THEN {"result"} ELSE {}
        /\ UNCHANGED <<uiVars, fftSize, overlap, pc, loopI, loopSegments>>

\* the caller has taken the result; the pipeline is synchronous, so the next call
\* starts only after the previous one has returned
Return ==
    /\ op # "idle"
    /\ pc \in {"none", "done"}
    /\ op' = "idle"
    /\ args' = <<>>
    /\ ret' = undefined
    /\ fftLens' = {}
    /\ signalAfter' = undefined
    /\ signalRefs' = {}
    /\ pc' = "none"
    /\ loopI' = 0
    /\ loopSegments' = <<>>
    /\ UNCHANGED <<uiVars, fftSize, overlap>>

Next ==
    \/ CallNextPowerOf2
    \/ CallFft
    \/ CallDetectPeaks
    \/ CallComputeFFT
    \/ CallComputeSpectrogram
    \/ CallComputeCrossCorrelation
    \/ CallApplyWindow
    \/ Call_applyWindow
    \/ CallComputePSD
    \/ CallComputeGroupDelay
    \/ CallValidateData
    \/ Return

Spec == Init /\ [][Next]_vars

(***************************************************************************)
(* The framer, step by step: _segmentSignal of an analyzer whose fftSize   *)
(* and overlap are any of a range of frame sizes and overlap fractions.    *)
(***************************************************************************)
FrameSizes == 1..MaxFrame
\* overlap fractions 0, 0.5, 0.75 and 0.9, in percent
Overlaps == {0, 50, 75, 90}

\* signals whose j-th sample is j, so that a frame shows where it was cut
FramerInputs ==
    {null} \cup {[k |-> kind, e |-> [j \in 1..m |-> Num(100 * j)]] :
                  kind \in ArrayKinds, m \in 0..MaxSeg}

FramerInit ==
    /\ op = "idle"
    /\ args = <<>>
    /\ ret = undefined
    /\ fftLens = {}
    /\ fftSize \in FrameSizes
    /\ overlap \in Overlaps
    /\ signalAfter = undefined
    /\ signalRefs = {}
    /\ pc = "none"
    /\ loopI = 0
    /\ loopSegments = <<>>
    /\ UiInit

\* entry of _segmentSignal up to the choice of the branch; signal.length of null
\* throws, and the catch block returns [signal]
Call_segmentSignal ==
    /\ op = "idle"
    /\ \E signal \in FramerInputs :
        /\ op' = "_segmentSignal"
        /\ args' = [signal |-> signal]
        /\ fftLens' = {}
        /\ signalAfter' = signal
        /\ loopI' = 0
        /\ loopSegments' = <<>>
        /\ IF signal.k = "null"
           THEN pc' = "done" /\ ret' = Arr(<<signal>>) /\ signalRefs' = {"result[0]"}
           ELSE /\ pc' = IF IsShortSignal(Length(signal), fftSize) THEN "short" ELSE "sliding"
                /\ ret' = undefined
                /\ signalRefs' = {}
        /\ UNCHANGED <<uiVars, fftSize, overlap>>

\* for (let i = 0; i < numSegments; i++): the test of the short-signal loop
ShortLoopTest ==
    loopI < NumSegments(Length(args.signal), HopSize(fftSize, overlap))

\* for (let i = 0; i < signal.length - hopSize; i += hopSize): the test
SlidingLoopTest == loopI < Length(args.signal) - HopSize(fftSize, overlap)

\* one iteration of the short-signal loop
ShortLoop ==
    /\ pc = "short"
    /\ ShortLoopTest
    /\ Len(loopSegments) < MaxFrames
    /\ loopSegments' = Append(loopSegments,
                              ShortSegment(args.signal, loopI, fftSize,
                                           HopSize(fftSize, overlap)))
    /\ loopI' = loopI + 1
    /\ UNCHANGED <<uiVars, op, args, ret, fftLens, fftSize, overlap, signalAfter, signalRefs, pc>>

\* one iteration of the sliding loop
SlidingLoop ==
    /\ pc = "sliding"
    /\ SlidingLoopTest
    /\ Len(loopSegments) < MaxFrames
    /\ loopSegments' = Append(loopSegments, SlidingSegment(args.signal, loopI, fftSize))
    /\ loopI' = loopI + HopSize(fftSize, overlap)
    /\ UNCHANGED <<uiVars, op, args, ret, fftLens, fftSize, overlap, signalAfter, signalRefs, pc>>

\* the loop test fails: return segments
LoopExit ==
    /\ \/ pc = "short" /\ ~ShortLoopTest
       \/ pc = "sliding" /\ ~SlidingLoopTest
    /\ pc' = "done"
    /\ ret' = Arr(loopSegments)
    /\ UNCHANGED <<uiVars, op, args, fftLens, fftSize, overlap, signalAfter, signalRefs,
                   loopI, loopSegments>>

FramerNext ==
    \/ Call_segmentSignal
    \/ ShortLoop
    \/ SlidingLoop
    \/ LoopExit
    \/ Return

\* the code is synchronous: a loop that can take a step takes it
FramerSpec ==
    FramerInit /\ [][FramerNext]_vars /\ WF_vars(ShortLoop \/ SlidingLoop \/ LoopExit)

(***************************************************************************)
(* The file form of the page (src/js/main.js).  A submission starts an      *)
(* asynchronous read of the chosen file and returns; the rest of the       *)
(* handler runs when the FileReader of that submission fires onload or     *)
(* onerror.  Reads of different submissions are independent, so they end   *)
(* in any order.  The promise continuation runs in the microtask that      *)
(* follows the onload task, so onload and the rest of the handler are one  *)
(* step.  The signal form (handleSignalFormSubmit) is left out.            *)
(***************************************************************************)
\* the files the user can choose: the name, its extension, and what the parser of
\* that extension makes of the content (null: an entry that is not a number)
Files ==
    {[name |-> "a.json", fileType |-> "json",
      parsed |-> <<Num(100), null, Num(0), Num(0 - 100)>>],
     [name |-> "b.txt", fileType |-> "txt", parsed |-> <<Num(100), Num(100)>>],
     [name |-> "c.csv", fileType |-> "csv", parsed |-> <<>>],
     [name |-> "d.dat", fileType |-> "dat", parsed |-> <<>>]}

\* what the promise of loadFile settles with once the read has succeeded: the
\* numbers of the parsed data, or a rejection
loadFile(file) ==
    IF file.fileType \notin {"csv", "txt", "json"} THEN Throw("Error")
    ELSE IF Len(file.parsed) = 0 THEN Throw("Error")
    ELSE Arr(SelectSeq(file.parsed, IsNum))

\* validatedSignal of handleFileFormSubmit, or what the try block threw
ValidatedSignal(file) ==
    IF IsThrow(loadFile(file)) THEN loadFile(file)
    ELSE validateData(loadFile(file), undefined)

\* windowTypeSelect.value and peakThresholdInput.value when the read ends
WindowSelections == {"none", "hanning"}
PeakThresholdInput == Num(1000)

\* the user picks a file in the file input
ChooseFile ==
    /\ \E file \in Files : dataFileInput' = file
    /\ UNCHANGED <<op, args, ret, fftLens, fftSize, overlap, signalAfter, signalRefs,
                   pc, loopI, loopSegments, fileLoads, lastFFTResult, timeTitle>>

\* handleFileFormSubmit up to its await: no file or an invalid sample rate ends
\* the handler with an alert; otherwise the read of the file starts
HandleFileFormSubmit ==
    /\ dataFileInput # null
    /\ Len(fileLoads) < MaxLoads
    /\ \E sampleRate \in SampleRates :
           fileLoads' = Append(fileLoads, [file |-> dataFileInput, sampleRate |-> sampleRate,
                                           status |-> "reading"])
    /\ UNCHANGED <<op, args, ret, fftLens, fftSize, overlap, signalAfter, signalRefs,
                   pc, loopI, loopSegments, dataFileInput, lastFFTResult, timeTitle>>

\* processAndDisplaySignal for submission i: lastFFTResult is assigned and the
\* plots and their titles are updated unless computeFFT throws
ProcessAndDisplaySignal(i, result) ==
    IF IsThrow(result)
    THEN /\ fileLoads' = [fileLoads EXCEPT ![i].status = "failed"]
         /\ UNCHANGED <<lastFFTResult, timeTitle>>
    ELSE /\ fileLoads' = [fileLoads EXCEPT ![i].status = "shown"]
         /\ lastFFTResult' = result
         /\ timeTitle' = fileLoads[i].file.name

\* reader.onload of the read of some submission, and the handler from its await on
FileReaderOnload ==
    /\ \E i \in 1..Len(fileLoads), windowType \in WindowSelections :
           /\ fileLoads[i].status = "reading"
           /\ IF IsThrow(ValidatedSignal(fileLoads[i].file))
              THEN /\ fileLoads' = [fileLoads EXCEPT ![i].status = "failed"]
                   /\ UNCHANGED <<lastFFTResult, timeTitle>>
              ELSE ProcessAndDisplaySignal(i,
                       computeFFT(ValidatedSignal(fileLoads[i].file), windowType,
                                  fileLoads[i].sampleRate, PeakThresholdInput))
    /\ UNCHANGED <<op, args, ret, fftLens, fftSize, overlap, signalAfter, signalRefs,
                   pc, loopI, loopSegments, dataFileInput>>

\* reader.onerror: the promise is rejected and the catch block alerts
FileReaderOnerror ==
    /\ \E i \in 1..Len(fileLoads) :
           /\ fileLoads[i].status = "reading"
           /\ fileLoads' = [fileLoads EXCEPT ![i].status = "failed"]
    /\ UNCHANGED <<op, args, ret, fftLens, fftSize, overlap, signalAfter, signalRefs,
                   pc, loopI, loopSegments, dataFileInput, lastFFTResult, timeTitle>>

LoaderNext ==
    \/ ChooseFile
    \/ HandleFileFormSubmit
    \/ FileReaderOnload
    \/ FileReaderOnerror

LoaderSpec == Init /\ [][LoaderNext]_vars

(***************************************************************************)
(* Claims                                                                  *)
(***************************************************************************)
RECURSIVE IsPowerOfTwo(_)
IsPowerOfTwo(n) == n >= 1 /\ (n = 1 \/ (n % 2 = 0 /\ IsPowerOfTwo(n \div 2)))

Range(seq) == {seq[i] : i \in 1..Len(seq)}

\* C1: computeFFT returns frequencies, magnitudes and phases of one length, and
\* twice that length is P = nextPowerOf2(M), for every signal length M >= 1
\* (M = 1 included) and every window kind.
C1_EqualHalfLengths ==
    (op = "computeFFT" /\ Length(args.signal) >= 1) =>
        /\ ret.k = "object"
        /\ Length(ret.frequencies) = Length(ret.magnitudes)
        /\ Length(ret.magnitudes) = Length(ret.phases)
        /\ IsPowerOfTwo(2 * Length(ret.frequencies))
        /\ 2 * Length(ret.frequencies) >= Length(args.signal)
        /\ Length(ret.frequencies) < Length(args.signal)

\* C2: nextPowerOf2(N) is N when N is a power of two, and is the power of two 2^k
\* with 2^(k-1)+1 <= N <= 2^k otherwise, for every N >= 1.
C2_NextPowerOf2 ==
    (op = "nextPowerOf2" /\ args.n >= 1) =>
        /\ IsPowerOfTwo(args.n) => ret.v = args.n
        /\ IsPowerOfTwo(ret.v)
        /\ args.n <= ret.v
        /\ ret.v >= 2 => (ret.v \div 2) + 1 <= args.n

C2_Witness == op = "nextPowerOf2" /\ args.n = 5 /\ ret.v = 8

\* C3: for every signal of length M >= 1 given to computeFFT, and for every frame
\* computeSpectrogram passes to it, the buffer handed to fft and the buffer of
\* every recursive call has a power-of-two length, and the recursion reaches
\* length 1.
C3_PowerOfTwoBuffers ==
    /\ (op = "computeFFT" /\ Length(args.signal) >= 1) =>
           /\ fftLens # {}
           /\ \A n \in fftLens : IsPowerOfTwo(n)
           /\ 1 \in fftLens
    /\ op = "computeSpectrogram" =>
           /\ \A n \in fftLens : IsPowerOfTwo(n)
           /\ fftLens # {} => 1 \in fftLens

C3_Witness == op = "computeFFT" /\ Length(args.signal) = 3 /\ fftLens = {1, 2, 4}

\* the bins 1..len-2 whose (frequency, magnitude, phase) triple is p
InteriorBinsOf(p, frequencies, magnitudes, phases) ==
    {i \in 1..(Length(magnitudes) - 2) :
        /\ p.frequency = Get(frequencies, i)
        /\ p.magnitude = Get(magnitudes, i)
        /\ p.phase = Get(phases, i)}

\* C4: every peak detectPeaks reports is the (frequency, magnitude, phase) triple
\* of a bin i with 1 <= i <= len-2: bin 0 and bin len-1 are never reported,
\* whatever the magnitudes (arrays of length 0, 1 and 2 included) and threshold.
C4_NoBoundaryPeaks ==
    /\ op = "detectPeaks" =>
           \A p \in Range(ret.e) :
               InteriorBinsOf(p, args.frequencies, args.magnitudes, args.phases) # {}
    /\ (op = "computeFFT" /\ ret.k = "object") =>
           \A p \in Range(ret.peaks.e) :
               InteriorBinsOf(p, ret.frequencies, ret.magnitudes, ret.phases) # {}

C4_Witness ==
    /\ op = "detectPeaks"
    /\ args.magnitudes.e = <<Num(200), Num(0), Num(100), Num(0), Num(200)>>
    /\ args.threshold = Num(1000)
    /\ Len(ret.e) = 1

\* the largest of a non-empty set of integers
MaxOf(S) == CHOOSE x \in S : \A y \in S : y <= x

\* C5: a bin i with 1 <= i <= len-2 is reported by detectPeaks iff magnitude[i] >
\* max(magnitude)*thresholdPercent/100 and magnitude[i] exceeds both neighbours
\* strictly; an all-equal spectrum gives the empty list.
C5_PeakIffStrictLocalMax ==
    op = "detectPeaks" =>
        LET m == [i \in 1..Length(args.magnitudes) |-> args.magnitudes.e[i].v]
            reported == {p.frequency : p \in Range(ret.e)}
        IN /\ \A i \in 2..(Len(m) - 1) :
                  (args.frequencies.e[i] \in reported) <=>
                      /\ 10000 * m[i] > MaxOf(Range(m)) * args.threshold.v
                      /\ m[i] > m[i - 1]
                      /\ m[i] > m[i + 1]
           /\ (\A i, j \in 1..Len(m) : m[i] = m[j]) => ret = Arr(<<>>)

C5_Witness ==
    /\ op = "detectPeaks"
    /\ args.magnitudes.e = <<Num(0), Num(200), Num(0), Num(100), Num(100)>>
    /\ args.threshold = Num(1000)
    /\ Len(ret.e) = 1
    /\ ret.e[1].frequency = Num(100)

\* C6: the list detectPeaks returns is in non-increasing order of magnitude, and
\* peaks of equal magnitude are in ascending bin order.
C6_SortedDescendingStable ==
    op = "detectPeaks" =>
        \A a, b \in 1..Len(ret.e) :
            a < b => /\ ret.e[a].magnitude.v >= ret.e[b].magnitude.v
                     /\ ret.e[a].magnitude.v = ret.e[b].magnitude.v =>
                            ret.e[a].frequency.v < ret.e[b].frequency.v

C6_Witness ==
    /\ op = "detectPeaks"
    /\ args.magnitudes.e = <<Num(0), Num(100), Num(0), Num(200), Num(0), Num(100), Num(0)>>
    /\ args.threshold = Num(1000)
    /\ Len(ret.e) = 3
    /\ <<ret.e[1].frequency, ret.e[2].frequency, ret.e[3].frequency>>
           = <<Num(300), Num(100), Num(500)>>

C8_AutoCorrelationSymmetricMax ==
    (op = "computeCrossCorrelation" /\ args.signal1 = args.signal2
        /\ Length(args.signal1) >= 1) =>
        LET n == Length(args.signal1)
        IN /\ ret.k = "Float32Array"
           /\ Length(ret) = 2 * n - 1
           /\ \A L \in 0..(n - 1) :
                  /\ Get(ret, n - 1 + L) = Get(ret, n - 1 - L)
                  /\ IsNum(Get(ret, n - 1 + L))
                  /\ Get(ret, n - 1).v >= Get(ret, n - 1 + L).v

C8_Witness ==
    /\ op = "computeCrossCorrelation"
    /\ args.signal1 = args.signal2
    /\ args.signal1.e = <<Num(100), Num(100), Num(0 - 100)>>
    /\ ret.e = <<Num(0 - 100), Num(0), Num(300), Num(0), Num(0 - 100)>>

\* C9: computeCrossCorrelation given two signals of different lengths fails with
\* an error; it never returns a correlation array.
C9_MismatchedLengthsFail ==
    (op = "computeCrossCorrelation" /\ Length(args.signal1) # Length(args.signal2)) =>
        IsThrow(ret)

\* C10: fft of an all-zero complex input of power-of-two length N returns N
\* entries, each (0, 0).
C10_ZeroInZeroOut ==
    (op = "fft" /\ \A x \in Range(args.input.e) : x = Arr(<<Num(0), Num(0)>>)) =>
        /\ ret.k = "Array"
        /\ Length(ret) = Length(args.input)
        /\ \A y \in Range(ret.e) : y = Arr(<<Num(0), Num(0)>>)

C10_Witness ==
    /\ op = "fft"
    /\ Length(args.input) = 4
    /\ \A x \in Range(args.input.e) : x = Arr(<<Num(0), Num(0)>>)
    /\ Length(ret) = 4

\* C11: applyWindow (and the analyzer's _applyWindow) on a segment of length N <= 1
\* returns the segment's values unchanged for every window kind; in particular
\* the zero divisor N-1 never yields NaN.
C11_ShortSegmentUnchanged ==
    /\ (op = "applyWindow" /\ Length(args.signal) <= 1) =>
           /\ Length(ret) = Length(args.signal)
           /\ \A j \in 1..Length(ret) : ret.e[j] = args.signal.e[j]
    /\ (op = "_applyWindow" /\ Length(args.segment) <= 1) =>
           /\ Length(ret) = Length(args.segment)
           /\ \A j \in 1..Length(ret) : ret.e[j] = args.segment.e[j]

\* C12: applyWindow with kind 'none', with no kind or an unrecognised one, or with
\* kind 'rectangular' returns a sequence of the input's length whose every sample
\* equals the input sample at the same index, for every segment length.
C12_UnweightedKindsKeepSamples ==
    (op = "applyWindow"
        /\ args.windowType \in {"none", "rectangular"} \cup UnrecognisedKinds) =>
        /\ IsArray(ret)
        /\ Length(ret) = Length(args.signal)
        /\ \A j \in 1..Length(ret) : ret.e[j] = args.signal.e[j]

C12_Witness ==
    /\ op = "applyWindow"
    /\ args.windowType = "rectangular"
    /\ args.signal = F32(<<Num(100), Num(0 - 100), Num(0), Num(100)>>)
    /\ ret = Arr(<<Num(100), Num(0 - 100), Num(0), Num(100)>>)

\* C13: applyWindow leaves its input segment as it was and, for every window kind,
\* returns an object other than the input; computeFFT leaves the signal as it was
\* and no array it returns is the caller's signal buffer.
C13_NoWriteNoAlias ==
    /\ op = "applyWindow" => signalAfter = args.signal /\ "result" \notin signalRefs
    /\ op = "computeFFT" => signalAfter = args.signal /\ "result" \notin signalRefs

\* C14: no SpectralAnalyzer operation changes fftSize or overlap: after any
\* sequence of calls they are what the constructor set, so what computePSD,
\* computeSpectrogram, computeCrossCorrelation and computeGroupDelay return is a
\* function of their arguments alone.
C14_NoStateOutlivesCall ==
    /\ fftSize = ConstructorFftSize
    /\ overlap = ConstructorOverlap
    /\ op = "computePSD" =>
           ret = computePSD(args.signal, args.sampleRate,
                            ConstructorFftSize, ConstructorOverlap)
    /\ op = "computeSpectrogram" =>
           ret = computeSpectrogram(args.signal, args.sampleRate,
                                    ConstructorFftSize, ConstructorOverlap)
    /\ op = "computeCrossCorrelation" =>
           ret = computeCrossCorrelation(args.signal1, args.signal2)
    /\ op = "computeGroupDelay" =>
           ret = computeGroupDelay(args.signal, args.sampleRate, ConstructorFftSize)

C14_Witness ==
    /\ op = "computePSD"
    /\ IsArray(args.signal)
    /\ Length(args.signal) = 5
    /\ ret.k = "object"
    /\ Length(ret.psd) = ConstructorFftSize \div 2

\* C15: the frequencies computeFFT returns are frequencies[i] = i * sampleRate / P
\* for every bin i in [0, P/2), P the padded length nextPowerOf2(M): the first is
\* 0, neighbours differ by sampleRate / P, and for sampleRate > 0 the array is
\* strictly increasing.
C15_UniformFrequencies ==
    (op = "computeFFT" /\ ret.k = "object") =>
        LET P == nextPowerOf2(Length(args.signal))
            f == ret.frequencies
            sampleRate == args.sampleRate.v
        IN /\ Length(f) = P \div 2
           /\ \A b \in 0..(Length(f) - 1) :
                  IsNum(Get(f, b)) /\ Get(f, b).v * P = b * sampleRate
           /\ Length(f) > 0 => Get(f, 0) = Num(0)
           /\ \A b \in 0..(Length(f) - 2) :
                  /\ (Get(f, b + 1).v - Get(f, b).v) * P = sampleRate
                  /\ sampleRate > 0 => Get(f, b + 1).v > Get(f, b).v

C15_Witness ==
    /\ op = "computeFFT"
    /\ Length(args.signal) = 3
    /\ args.sampleRate = Num(800)
    /\ ret.k = "object"
    /\ ret.frequencies = Arr(<<Num(0), Num(200)>>)

\* C16: validateData returns the first maxLength samples, in order, of an array
\* longer than maxLength (maxLength the default when left out), returns the input
\* when its length is in 1..maxLength, and throws for a value that is no array and
\* for the empty array; an array that is too long is never refused.
C16_ValidateData ==
    op = "validateData" =>
        LET data == args.data
            max == IF args.maxLength.k = "undefined" THEN DefaultMaxLength
                   ELSE args.maxLength.v
        IN IF data.k # "Array" THEN IsThrow(ret)
           ELSE IF Length(data) = 0 THEN IsThrow(ret)
           ELSE IF Length(data) > max
                THEN /\ ret.k = "Array"
                     /\ Length(ret) = max
                     /\ \A j \in 1..max : ret.e[j] = data.e[j]
           ELSE ret = data /\ "result" \in signalRefs

C16_Witness ==
    /\ op = "validateData"
    /\ args.maxLength = undefined
    /\ args.data = Arr(<<Num(100), Num(0), Num(0 - 100), Num(100)>>)
    /\ ret = Arr(<<Num(100), Num(0), Num(0 - 100)>>)

\* C17: for N > 1 the Hanning coefficient is exactly 0 at index 0 and at index
\* N-1, so the first and the last sample of a Hanning-windowed segment are 0
\* whatever the input, out of applyWindow and out of _applyWindow.
C17_HanningEndpointsZero ==
    /\ (op = "applyWindow" /\ args.windowType = "hanning" /\ Length(args.signal) > 1) =>
           LET N == Length(args.signal)
           IN /\ WindowValue("hanning", 0, N) = Num(0)
              /\ WindowValue("hanning", N - 1, N) = Num(0)
              /\ Get(ret, 0) = Num(0)
              /\ Get(ret, N - 1) = Num(0)
    /\ (op = "_applyWindow" /\ args.windowType = "hanning" /\ Length(args.segment) > 1) =>
           /\ Get(ret, 0) = Num(0)
           /\ Get(ret, Length(args.segment) - 1) = Num(0)

C17_Witness ==
    /\ op = "applyWindow"
    /\ args.windowType = "hanning"
    /\ args.signal.e = <<Num(100), Num(100), Num(100)>>
    /\ ret.e = <<Num(0), Num(100), Num(0)>>

\* the start index of the frame the next iteration of the running loop cuts
FrameStart ==
    IF pc = "short"
    THEN ShortStart(loopI, Length(args.signal), HopSize(fftSize, overlap))
    ELSE loopI

\* the running loop goes on to another iteration
LoopTest == (pc = "short" /\ ShortLoopTest) \/ (pc = "sliding" /\ SlidingLoopTest)

\* C19 as stated: the hop size is at least 1 for every frame size and overlap,
\* _segmentSignal returns, and from one loop iteration to the next the frame start
\* index strictly increases.
C19_StartStrictlyIncreases ==
    /\ [](HopSize(fftSize, overlap) >= 1)
    /\ [][((ShortLoop \/ SlidingLoop) /\ LoopTest') => FrameStart' > FrameStart]_vars
    /\ (pc \in {"short", "sliding"}) ~> (pc = "done")

\* C19 amended: the hop size is at least 1 for every frame size and overlap and
\* _segmentSignal returns, because every iteration increases the loop variable;
\* the frame start index strictly increases in the sliding loop and never
\* decreases in the short-signal loop, where it stays at the last sample once it
\* has reached it.
C19_Terminates ==
    /\ [](HopSize(fftSize, overlap) >= 1)
    /\ [][(ShortLoop \/ SlidingLoop) =>
             (loopI' > loopI /\ Len(loopSegments') = Len(loopSegments) + 1)]_vars
    /\ [][(SlidingLoop /\ LoopTest') => FrameStart' > FrameStart]_vars
    /\ [][(ShortLoop /\ LoopTest') => FrameStart' >= FrameStart]_vars
    /\ (pc \in {"short", "sliding"}) ~> (pc = "done")

C19_Witness ==
    /\ op = "_segmentSignal"
    /\ pc = "done"
    /\ fftSize = 4
    /\ overlap = 90
    /\ IsArray(args.signal)
    /\ Length(args.signal) = 2
    /\ Len(ret.e) = 10
    /\ ret.e[2] = ret.e[3]

\* the frames the sliding loop cuts from a signal: starts 0, hopSize, 2*hopSize, ...
\* below signal.length - hopSize
SlidingFrames(signal, segmentSize, hopSize) ==
    [j \in 1..((Length(signal) - 1) \div hopSize) |->
        SlidingSegment(signal, (j - 1) * hopSize, segmentSize)]

\* C20 as stated: the sliding loop frames every signal with M >= N, M = N
\* included, and the short-signal loop only signals with M < N.
C20_SlidingFromMEqualN ==
    /\ pc = "short" => Length(args.signal) < fftSize
    /\ (pc = "sliding" \/ (pc = "done" /\ IsArray(args.signal)
                                       /\ Length(args.signal) >= fftSize)) =>
           /\ Length(args.signal) >= fftSize
           /\ pc = "done" =>
                  ret.e = SlidingFrames(args.signal, fftSize, HopSize(fftSize, overlap))

\* C20 amended: the sliding loop frames the signals with M > N; a signal with
\* M <= N, M = N included, is framed by the short-signal loop, which returns
\* max(10, floor(M / hopSize)) frames, the first of them equal to the signal
\* when M = N.
C20_ShortUpToN ==
    /\ pc = "short" => Length(args.signal) <= fftSize
    /\ pc = "sliding" => Length(args.signal) > fftSize
    /\ (pc = "done" /\ IsArray(args.signal)) =>
           LET M == Length(args.signal)
               hopSize == HopSize(fftSize, overlap)
           IN /\ ret.e = _segmentSignal(args.signal, fftSize, overlap)
              /\ M > fftSize => ret.e = SlidingFrames(args.signal, fftSize, hopSize)
              /\ M <= fftSize => Len(ret.e) = Max2(10, M \div hopSize)
              /\ M = fftSize => ret.e[1].e = args.signal.e

C20_Witness ==
    /\ op = "_segmentSignal"
    /\ pc = "done"
    /\ fftSize = 4
    /\ overlap = 75
    /\ IsArray(args.signal)
    /\ Length(args.signal) = 4
    /\ Len(ret.e) = 10

\* C21: in the sliding loop every frame has length exactly N = fftSize; frame k
\* (counted from 0) starts at sample k * hopSize, its first min(N, M - k * hopSize)
\* entries are the signal samples from that offset in order, and all its other
\* entries are 0.
C21_SlidingFrameContent ==
    (pc \in {"sliding", "done"} /\ IsArray(args.signal)
        /\ ~IsShortSignal(Length(args.signal), fftSize)) =>
        LET M == Length(args.signal)
            N == fftSize
            hopSize == HopSize(fftSize, overlap)
        IN /\ pc = "done" => ret = Arr(loopSegments)
           /\ \A k \in 0..(Len(loopSegments) - 1) :
                  LET frame == loopSegments[k + 1]
                  IN /\ frame.k = "Float32Array"
                     /\ Length(frame) = N
                     /\ \A j \in 0..(N - 1) :
                            Get(frame, j) =
                                IF j < Min2(N, M - k * hopSize)
                                THEN Get(args.signal, k * hopSize + j)
                                ELSE Num(0)

C21_Witness ==
    /\ op = "_segmentSignal"
    /\ pc = "done"
    /\ fftSize = 4
    /\ overlap = 50
    /\ IsArray(args.signal)
    /\ Length(args.signal) = 5
    /\ Len(ret.e) = 2
    /\ ret.e[2] = F32(<<Num(300), Num(400), Num(500), Num(0)>>)

C23_OneRowPerFrame ==
    (op = "computeSpectrogram" /\ IsArray(args.signal) /\ args.sampleRate.v > 0) =>
        LET frames == SpectrogramSegments(args.signal, fftSize, overlap)
        IN /\ ret.k = "object"
           /\ Len(ret.data) = Len(frames)
           /\ ret.timeSteps = Len(ret.data)
           /\ \A i \in 1..Len(ret.data) :
                  /\ Length(ret.data[i]) = fftSize \div 2
                  /\ ret.data[i] = SpectrogramRow(frames[i], fftSize)

C23_Witness ==
    /\ op = "computeSpectrogram"
    /\ IsArray(args.signal)
    /\ Length(args.signal) = 5
    /\ args.sampleRate = Num(800)
    /\ ret.k = "object"
    /\ ret.timeSteps = 4
    /\ Len(ret.data) = 4
    /\ Length(ret.data[4]) = 2

\* |c|^2 of a {real, imag} bin of a transform
SquaredMagnitude(c) ==
    IF c.k = "object" THEN Add(Mul(c.real, c.real), Mul(c.imag, c.imag)) ELSE NaN

\* the sum over the transforms j, j + 1, ... of |bin|^2
RECURSIVE SquaredMagnitudeSum(_, _, _)
SquaredMagnitudeSum(ffts, bin, j) ==
    IF j > Len(ffts) THEN Num(0)
    ELSE Add(SquaredMagnitude(Get(ffts[j], bin)), SquaredMagnitudeSum(ffts, bin, j + 1))

\* C24: computePSD of a non-empty signal of numbers returns a psd and a frequency
\* axis of fftSize / 2 entries each; psd[i] is the mean over the frames of the
\* squared magnitude real^2 + imag^2 of bin i of the transform of the
\* Hanning-windowed frame, and every psd value is a number and is not negative.
C24_PsdMeanSquaredMagnitude ==
    (op = "computePSD" /\ IsArray(args.signal) /\ Length(args.signal) >= 1) =>
        LET ffts == FrameTransforms(_segmentSignal(args.signal, fftSize, overlap), fftSize)
        IN /\ ret.k = "object"
           /\ Length(ret.psd) = fftSize \div 2
           /\ Length(ret.frequencies) = Length(ret.psd)
           /\ \A b \in 0..(Length(ret.psd) - 1) :
                  /\ IsNum(Get(ret.psd, b))
                  /\ Get(ret.psd, b).v >= 0
                  /\ Get(ret.psd, b) = DivByCount(SquaredMagnitudeSum(ffts, b, 1), Len(ffts))

\* the sum of signal1[i] * signal2[i - lag] over the indices i of the set I
RECURSIVE SumOfProducts(_, _, _, _)
SumOfProducts(signal1, signal2, lag, I) ==
    IF I = {} THEN 0
    ELSE LET i == CHOOSE x \in I : TRUE
         IN RoundDiv(Get(signal1, i).v * Get(signal2, i - lag).v, 100)
                + SumOfProducts(signal1, signal2, lag, I \ {i})

C26_GroupDelayOfAdjacentBins ==
    (op = "computeGroupDelay" /\ IsArray(args.signal) /\ Length(args.signal) >= 1
        /\ args.sampleRate.v > 0) =>
        LET B == nextPowerOf2(Length(args.signal)) \div 2
        IN /\ ret.k = "object"
           /\ Length(ret.groupDelay) = B - 1
           /\ Length(ret.frequencies) = B - 1
           /\ ret.groupDelay =
                  GroupDelayOfPhase(PhaseOf(_computeFFT(args.signal, fftSize)),
                                    args.sampleRate, fftSize).groupDelay

\* C27: the buffer computeFFT gives to fft has length P = nextPowerOf2(M); its
\* entries 0..M-1 are the pairs (windowed sample, 0) in order and its entries
\* M..P-1 are (0, 0): the windowed signal is padded on the right only.
C27_RightPaddedComplexBuffer ==
    op = "computeFFT" =>
        LET M == Length(args.signal)
            P == nextPowerOf2(M)
            windowedSignal == applyWindow(args.signal, args.windowType)
            complexSignal == ComplexSignal(args.signal, args.windowType)
        IN /\ Length(complexSignal) = P
           /\ \A j \in 0..(P - 1) :
                  Get(complexSignal, j) =
                      IF j < M THEN Arr(<<Get(windowedSignal, j), Num(0)>>)
                      ELSE Arr(<<Num(0), Num(0)>>)

\* the sum of the parts c (0 real, 1 imaginary) of the entries j, j + 1, ... of a
\* complex array, the odd-indexed ones (counted from 0) subtracted when alternate
RECURSIVE SignedSum(_, _, _, _)
SignedSum(input, c, alternate, j) ==
    IF j >= Length(input) THEN 0
    ELSE (IF alternate /\ j % 2 = 1 THEN 0 - Get(Get(input, j), c).v
          ELSE Get(Get(input, j), c).v)
         + SignedSum(input, c, alternate, j + 1)

\* C28: for an input of power-of-two length N >= 1 fft returns exactly N entries;
\* bin 0 is the sum of all N inputs and, for N >= 2, bin N/2 is the sum of the
\* even-indexed inputs minus the sum of the odd-indexed ones; the twiddle factor
\* at k = 0 is exactly 1.
C28_SumAndAlternatingSum ==
    (op = "fft" /\ IsPowerOfTwo(Length(args.input))) =>
        LET N == Length(args.input)
        IN /\ ret.k = "Array"
           /\ Length(ret) = N
           /\ CosTurn(0, N) = Num(100) /\ SinTurn(0, N) = Num(0)
           /\ Get(ret, 0) = Arr(<<Num(SignedSum(args.input, 0, FALSE, 0)),
                                   Num(SignedSum(args.input, 1, FALSE, 0))>>)
           /\ N >= 2 =>
                  Get(ret, N \div 2) = Arr(<<Num(SignedSum(args.input, 0, TRUE, 0)),
                                             Num(SignedSum(args.input, 1, TRUE, 0))>>)

C28_Witness ==
    /\ op = "fft"
    /\ args.input = Arr(<<Arr(<<Num(100), Num(0)>>), Arr(<<Num(0), Num(100)>>),
                          Arr(<<Num(100), Num(0)>>), Arr(<<Num(0), Num(0)>>)>>)
    /\ Get(ret, 0) = Arr(<<Num(200), Num(100)>>)
    /\ Get(ret, 2) = Arr(<<Num(200), Num(0 - 100)>>)

\* C29: when the sliding loop has framed a signal (M > N), every sample of the
\* signal is inside at least one frame, for every frame size and overlap: no tail
\* of the signal is left out.
C29_EverySampleFramed ==
    (pc = "done" /\ IsArray(args.signal) /\ Length(args.signal) > fftSize) =>
        \A s \in 0..(Length(args.signal) - 1) :
            \E k \in 0..(Len(ret.e) - 1) :
                LET start == k * HopSize(fftSize, overlap)
                IN /\ start <= s
                   /\ s < start + fftSize
                   /\ Get(ret.e[k + 1], s - start) = Get(args.signal, s)

\* C30: when file loads have been submitted one after the other and all their
\* reads have ended, in whatever order, the spectrum held in lastFFTResult and the
\* plots shown are those of the file submitted last (when that load succeeded): a
\* read of an earlier submission that ends later does not replace them.
C30_LatestLoadWins ==
    (/\ Len(fileLoads) >= 2
     /\ \A i \in 1..Len(fileLoads) : fileLoads[i].status # "reading"
     /\ fileLoads[Len(fileLoads)].status = "shown") =>
        LET latest == fileLoads[Len(fileLoads)]
        IN /\ timeTitle = latest.file.name
           /\ \E windowType \in WindowSelections :
                  lastFFTResult = computeFFT(ValidatedSignal(latest.file), windowType,
                                             latest.sampleRate, PeakThresholdInput)

====
